---- MODULE Spec2Model ----
(***************************************************************************)
(* Model of streamlit_app.py, the SQLite-backed defect tracker: the        *)
(* defects table, upsert_defect / delete_defect / load_defects_df /        *)
(* next_defect_id / compute_age_days, and the page handlers (create form,  *)
(* Save changes, Confirm delete) run by concurrent browser sessions.       *)
(*                                                                         *)
(* Text is a sequence of one-character strings, so that strip(), upper(),  *)
(* split("-"), int() and the f-string formatting are computed rather than  *)
(* assumed.  A Python / SQL value is a tagged record: None (also SQL NULL),*)
(* Str(s), Date(d), Int(n), and Absent for a key the dict does not hold.   *)
(***************************************************************************)
EXTENDS Integers, Sequences, FiniteSets, TLC

VARIABLES
    table,      \* the rows of the defects table, in rowid order
    now,        \* the wall clock, in ticks
    last,       \* the last call made and what it returned or raised
    sess,       \* per browser session: st.session_state and the script position
    issued,     \* history: the identifiers the create form has assigned so far
    age_in,     \* arguments of the last compute_age_days call
    age_out     \* its result

vars == <<table, now, last, sess, issued, age_in, age_out>>

----------------------------------------------------------------------------
(* Bounds of the model *)

MaxNow == 1
MaxRows == 1
MaxDay == 2

(* The clock: TicksPerDay ticks make one calendar day. *)
TicksPerDay == 2

----------------------------------------------------------------------------
(* Characters and text *)

LowerChars == <<"a","b","c","d","e","f","g","h","i","j","k","l","m",
                "n","o","p","q","r","s","t","u","v","w","x","y","z">>
UpperChars == <<"A","B","C","D","E","F","G","H","I","J","K","L","M",
                "N","O","P","Q","R","S","T","U","V","W","X","Y","Z">>
DigitChars == <<"0","1","2","3","4","5","6","7","8","9">>

IsLower(c) == \E i \in 1..26 : LowerChars[i] = c
IsUpper(c) == \E i \in 1..26 : UpperChars[i] = c
IsDigit(c) == \E i \in 1..10 : DigitChars[i] = c
IsSpace(c) == c = " "

UpperChar(c) == IF IsLower(c) THEN UpperChars[CHOOSE i \in 1..26 : LowerChars[i] = c] ELSE c
LowerChar(c) == IF IsUpper(c) THEN LowerChars[CHOOSE i \in 1..26 : UpperChars[i] = c] ELSE c
DigitVal(c) == (CHOOSE i \in 1..10 : DigitChars[i] = c) - 1

\* str.upper() / str.lower()
Upper(s) == [i \in 1..Len(s) |-> UpperChar(s[i])]
Lower(s) == [i \in 1..Len(s) |-> LowerChar(s[i])]

\* str.strip(): drop leading and trailing whitespace
RECURSIVE LStrip(_)
LStrip(s) == IF s # <<>> /\ IsSpace(Head(s)) THEN LStrip(Tail(s)) ELSE s

RECURSIVE RStrip(_)
RStrip(s) == IF s # <<>> /\ IsSpace(s[Len(s)]) THEN RStrip(SubSeq(s, 1, Len(s) - 1)) ELSE s

Strip(s) == RStrip(LStrip(s))

\* s.split("-")[-1]: the text after the last "-", the whole text when there is none
RECURSIVE LastSegment(_)
LastSegment(s) ==
    IF \E i \in 1..Len(s) : s[i] = "-"
    THEN LastSegment(SubSeq(s, (CHOOSE i \in 1..Len(s) : s[i] = "-" /\ \A j \in 1..(i-1) : s[j] # "-") + 1, Len(s)))
    ELSE s

\* int(text): surrounding whitespace is ignored, then decimal digits only;
\* anything else raises ValueError (CanInt is FALSE)
CanInt(s) == Strip(s) # <<>> /\ \A i \in 1..Len(Strip(s)) : IsDigit(Strip(s)[i])

RECURSIVE DigitsValue(_)
DigitsValue(s) == IF s = <<>> THEN 0 ELSE 10 * DigitsValue(SubSeq(s, 1, Len(s) - 1)) + DigitVal(s[Len(s)])

PyInt(s) == DigitsValue(Strip(s))

\* the decimal digits of n >= 0
RECURSIVE Decimal(_)
Decimal(n) == IF n < 10 THEN <<DigitChars[n + 1]>> ELSE Decimal(n \div 10) \o <<DigitChars[(n % 10) + 1]>>

\* f"{n:03d}": zero-padded to a minimum width of three
RECURSIVE ZeroPad(_, _)
ZeroPad(s, w) == IF Len(s) >= w THEN s ELSE ZeroPad(<<"0">> \o s, w)

Format03d(n) == ZeroPad(Decimal(n), 3)

----------------------------------------------------------------------------
(* Python and SQL values *)

None == [t |-> "none"]
Absent == [t |-> "absent"]
Str(s) == [t |-> "str", s |-> s]
Date(d) == [t |-> "date", d |-> d]
Num(n) == [t |-> "int", n |-> n]

IsNone(v) == v.t = "none"
IsAbsent(v) == v.t = "absent"

\* datetime.date.isoformat(): day d of the model's calendar is 2025-01-(d+1)
IsoDate(d) == <<"2","0","2","5","-","0","1","-">> \o ZeroPad(Decimal(d + 1), 2)

\* datetime.isoformat(timespec="seconds") of clock tick n
IsoStamp(n) == IsoDate(n \div TicksPerDay) \o <<"T">> \o ZeroPad(Decimal(n % TicksPerDay), 2)

\* str(x)
PyStr(v) ==
    CASE v.t = "none" -> <<"N","o","n","e">>
      [] v.t = "str" -> v.s
      [] v.t = "date" -> IsoDate(v.d)
      [] v.t = "int" -> Decimal(v.n)

\* dict.get(key, default)
RowGet(row, key, default) == IF IsAbsent(row[key]) THEN default ELSE row[key]

\* the days pd.to_datetime can return in this model
DayRange == 0..27

NullWords == {<<"n","a","n">>, <<"n","o","n","e">>, <<"n","u","l","l">>}

\* pd.to_datetime(s, dayfirst=True, errors="raise").date(), or the exception
CanParseDate(s) == \E d \in DayRange : IsoDate(d) = s
ToDatetime(s) == CHOOSE d \in DayRange : IsoDate(d) = s

ParseAnyDate(x) ==
    IF x.t = "none" THEN None
    ELSE IF x.t = "date" THEN x
    ELSE LET s == Strip(PyStr(x))
         IN IF s = <<>> \/ Lower(s) \in NullWords THEN None
            ELSE IF CanParseDate(s) THEN Date(ToDatetime(s))
            ELSE None

DateToStr(d) == IF d.t = "date" THEN Str(IsoDate(d.d)) ELSE None

today_date(n) == n \div TicksPerDay

----------------------------------------------------------------------------
(* Controlled vocabulary *)

COMPANY_CODES == <<<<"4","3","1","0">>, <<"8","4","1","0">>>>
COMPANY_INDEX == [c \in {<<"4","3","1","0">>, <<"8","4","1","0">>} |-> IF c = <<"4","3","1","0">> THEN <<"1">> ELSE <<"2">>]

MODULES == <<<<"P","L","M">>, <<"P","P">>, <<"F","I">>, <<"S","D">>, <<"M","M">>, <<"Q","M">>, <<"A","B","A","P">>, <<"B","A","S","I","S">>, <<"O","T","H","E","R">>>>
DEFECT_TYPES == <<<<"F","u","n","c","t","i","o","n","a","l">>, <<"D","a","t","a"," ","M","i","g","r","a","t","i","o","n">>, <<"T","e","s","t"," ","D","a","t","a">>, <<"E","D","I"," ","s","e","t"," ","u","p">>,
                  <<"C","o","n","f","i","g","u","r","a","t","i","o","n">>, <<"S","e","c","u","r","i","t","y","/","A","u","t","h","o","r","i","z","a","t","i","o","n">>, <<"P","e","r","f","o","r","m","a","n","c","e">>, <<"O","t","h","e","r">>>>
PRIORITIES == <<<<"P","1"," ","-"," ","C","r","i","t","i","c","a","l">>, <<"P","2"," ","-"," ","H","i","g","h">>, <<"P","3"," ","-"," ","M","e","d","i","u","m">>, <<"P","4"," ","-"," ","L","o","w">>>>
STATUSES == <<<<"N","e","w">>, <<"I","n"," ","P","r","o","g","r","e","s","s">>, <<"B","l","o","c","k","e","d">>, <<"R","e","s","o","l","v","e","d">>, <<"C","l","o","s","e","d">>, <<"R","e","o","p","e","n","e","d">>>>
ENVIRONMENTS == <<<<"P","1","S">>, <<"Q","1","S">>, <<"Q","2","S">>, <<"Q","2","C">>>>
OPEN_WITH == <<<<"S","D","S">>, <<"S","N","P">>, <<"C","l","i","e","n","t">>, <<"O","t","h","e","r">>>>

S_New == STATUSES[1]
S_InProgress == STATUSES[2]
S_Blocked == STATUSES[3]
S_Resolved == STATUSES[4]
S_Closed == STATUSES[5]
S_Reopened == STATUSES[6]

TerminalStatuses == {S_Resolved, S_Closed}
ActiveStatuses == {S_New, S_InProgress, S_Blocked, S_Reopened}

----------------------------------------------------------------------------
(* compute_age_days *)

Max(a, b) == IF a >= b THEN a ELSE b

ComputeAgeDaysWrongEnd(open_date, resolved_date, status, today) ==
    IF IsNone(open_date) THEN None
    ELSE LET end == IF ~IsNone(resolved_date) THEN resolved_date.d ELSE today
         IN Num(Max(0, end - open_date.d))

ComputeAgeDays(open_date, resolved_date, status, today) ==
    IF IsNone(open_date) THEN None
    ELSE LET end == IF status \in TerminalStatuses /\ ~IsNone(resolved_date)
                    THEN resolved_date.d ELSE today
         IN Num(Max(0, end - open_date.d))

----------------------------------------------------------------------------
(* The defects table: one record per row, every column TEXT (Str) or NULL (None) *)

\* str(row.get(key, "")).strip()
TextOf(row, key) == Str(Strip(PyStr(RowGet(row, key, Str(<<>>)))))

\* the payload dict of upsert_defect
Payload(row, actor, is_create, clock) ==
    LET open_date == ParseAnyDate(RowGet(row, "open_date", None))
        resolved_date == ParseAnyDate(RowGet(row, "resolved_date", None))
        p == [defect_id |-> TextOf(row, "defect_id"),
              company_code |-> TextOf(row, "company_code"),
              open_date |-> DateToStr(open_date),
              module |-> TextOf(row, "module"),
              defect_title |-> TextOf(row, "defect_title"),
              defect_type |-> TextOf(row, "defect_type"),
              priority |-> TextOf(row, "priority"),
              status |-> TextOf(row, "status"),
              resolved_date |-> DateToStr(resolved_date),
              open_with |-> TextOf(row, "open_with"),
              reported_by |-> TextOf(row, "reported_by"),
              responsible |-> TextOf(row, "responsible"),
              current_owner |-> TextOf(row, "current_owner"),
              environment |-> TextOf(row, "environment"),
              linked_test_id |-> TextOf(row, "linked_test_id"),
              description |-> TextOf(row, "description"),
              steps |-> TextOf(row, "steps"),
              created_by |-> TextOf(row, "created_by"),
              created_at |-> TextOf(row, "created_at"),
              last_updated_by |-> Str(Strip(actor)),
              last_updated_at |-> Str(IsoStamp(clock))]
    IN IF is_create
       THEN [p EXCEPT !.created_by = Str(Strip(actor)),
                      !.created_at = Str(IsoStamp(clock)),
                      !.last_updated_by = Str(Strip(actor)),
                      !.last_updated_at = Str(IsoStamp(clock))]
       ELSE p

HasRow(tbl, did) == \E r \in tbl : r.defect_id = Str(did)
RowOf(tbl, did) == CHOOSE r \in tbl : r.defect_id = Str(did)
RowsWith(tbl, did) == {r \in tbl : r.defect_id = Str(did)}

\* a plausible slip: the conflict branch replaces the whole row
ConflictReplace(old, excluded) == excluded

\* a plausible slip: ON CONFLICT DO NOTHING
ConflictIgnore(old, excluded) == old

\* ON CONFLICT(defect_id) DO UPDATE SET ...: every column but defect_id,
\* created_by and created_at is taken from the excluded (new) row
ConflictUpdate(old, excluded) ==
    [old EXCEPT !.company_code = excluded.company_code,
                !.open_date = excluded.open_date,
                !.module = excluded.module,
                !.defect_title = excluded.defect_title,
                !.defect_type = excluded.defect_type,
                !.priority = excluded.priority,
                !.status = excluded.status,
                !.resolved_date = excluded.resolved_date,
                !.open_with = excluded.open_with,
                !.reported_by = excluded.reported_by,
                !.responsible = excluded.responsible,
                !.current_owner = excluded.current_owner,
                !.environment = excluded.environment,
                !.linked_test_id = excluded.linked_test_id,
                !.description = excluded.description,
                !.steps = excluded.steps,
                !.last_updated_by = excluded.last_updated_by,
                !.last_updated_at = excluded.last_updated_at]

\* a plausible slip: plain INSERT, no ON CONFLICT clause and no key check
InsertNoConflict(tbl, p) == tbl \cup {p}

\* a plausible slip: the first row for an identifier wins
InsertIgnoreConflict(tbl, p) ==
    IF \E r \in tbl : r.defect_id = p.defect_id THEN tbl ELSE tbl \cup {p}

\* INSERT INTO defects ... ON CONFLICT(defect_id) DO UPDATE SET ...; commit
InsertOnConflict(tbl, p) ==
    IF \E r \in tbl : r.defect_id = p.defect_id
    THEN {IF r.defect_id = p.defect_id THEN ConflictUpdate(r, p) ELSE r : r \in tbl}
    ELSE tbl \cup {p}

\* a plausible slip: no check of the identifier
UpsertNoIdCheck(tbl, row, actor, is_create, clock) ==
    [table |-> InsertOnConflict(tbl, Payload(row, actor, is_create, clock)), err |-> "ok"]

\* a plausible slip: an update that only touches a row that is there
UpsertUpdateOnly(tbl, row, actor, is_create, clock) ==
    LET defect_id == Strip(PyStr(RowGet(row, "defect_id", Str(<<>>))))
    IN IF defect_id = <<>>
       THEN [table |-> tbl, err |-> "ValueError"]
       ELSE IF ~is_create /\ ~HasRow(tbl, defect_id)
       THEN [table |-> tbl, err |-> "ok"]
       ELSE [table |-> InsertOnConflict(tbl, Payload(row, actor, is_create, clock)),
             err |-> "ok"]

\* upsert_defect: the table afterwards and "ok", or the table untouched and the exception
UpsertDefect(tbl, row, actor, is_create, clock) ==
    LET defect_id == Strip(PyStr(RowGet(row, "defect_id", Str(<<>>))))
    IN IF defect_id = <<>>
       THEN [table |-> tbl, err |-> "ValueError"]
       ELSE [table |-> InsertOnConflict(tbl, Payload(row, actor, is_create, clock)),
             err |-> "ok"]

\* a plausible slip: DELETE without its WHERE clause
DeleteAll(tbl, did) == {}

\* DELETE FROM defects WHERE defect_id = ?; commit
DeleteDefect(tbl, did) == {r \in tbl : r.defect_id # Str(did)}

\* df[col].fillna("").astype(str)
FillStr(v) == IF IsNone(v) THEN Str(<<>>) ELSE Str(PyStr(v))

DisplayRow(r, today) ==
    LET open_date == ParseAnyDate(r.open_date)
        resolved_date == ParseAnyDate(r.resolved_date)
    IN [company_code |-> FillStr(r.company_code),
        open_date |-> open_date,
        module |-> FillStr(r.module),
        defect_id |-> FillStr(r.defect_id),
        defect_title |-> FillStr(r.defect_title),
        defect_type |-> FillStr(r.defect_type),
        priority |-> FillStr(r.priority),
        status |-> FillStr(r.status),
        current_owner |-> FillStr(r.current_owner),
        resolved_date |-> resolved_date,
        open_with |-> FillStr(r.open_with),
        reported_by |-> FillStr(r.reported_by),
        responsible |-> FillStr(r.responsible),
        environment |-> FillStr(r.environment),
        linked_test_id |-> FillStr(r.linked_test_id),
        description |-> FillStr(r.description),
        steps |-> FillStr(r.steps),
        age |-> ComputeAgeDays(open_date, resolved_date, FillStr(r.status).s, today),
        created_by |-> FillStr(r.created_by),
        created_at |-> FillStr(r.created_at),
        last_updated_by |-> FillStr(r.last_updated_by),
        last_updated_at |-> FillStr(r.last_updated_at)]

\* load_defects_df: SELECT * FROM defects (no ORDER BY), converted to the display frame
LoadDefectsDf(tbl, today) == {DisplayRow(r, today) : r \in tbl}

----------------------------------------------------------------------------
(* next_defect_id *)

\* SQLite's  defect_id LIKE prefix || '%'  (LIKE folds ASCII case; "_" in the
\* pattern matches any one character)
LikePrefix(s, prefix) ==
    /\ Len(s) >= Len(prefix)
    /\ \A i \in 1..Len(prefix) : prefix[i] = "_" \/ UpperChar(s[i]) = UpperChar(prefix[i])

SetMax(S) == CHOOSE x \in S : \A y \in S : y <= x

\* a plausible slip: number by the count of matching rows
MaxNumByCount(dids) == Cardinality(dids)

\* the loop over the fetched identifiers: the largest int(did.split("-")[-1]),
\* skipping the identifiers whose last segment int() rejects; 0 when none
MaxNum(dids) ==
    SetMax({0} \cup {PyInt(LastSegment(d)) : d \in {e \in dids : CanInt(LastSegment(e))}})

IdPrefix(module, company_code) ==
    LET mod == Upper(Strip(IF module = <<>> THEN <<"O","T","H","E","R">> ELSE module))
        comp_idx == IF company_code \in DOMAIN COMPANY_INDEX
                    THEN COMPANY_INDEX[company_code] ELSE <<"0">>
    IN mod \o <<"-">> \o comp_idx \o <<"-">>

NextDefectId(tbl, module, company_code) ==
    LET prefix == IdPrefix(module, company_code)
        rows == {r.defect_id.s : r \in {q \in tbl : LikePrefix(q.defect_id.s, prefix)}}
    IN prefix \o Format03d(MaxNum(rows) + 1)

----------------------------------------------------------------------------
(* Inputs of the direct calls *)

U_al == <<"a","l">>
U_bo == <<"b","o">>
U_zed == <<"z","e","d">>
Actors == {U_al, U_bo}

ID_SD1_001 == <<"S","D","-","1","-","0","0","1">>
ID_SD1_007 == <<"S","D","-","1","-","0","0","7">>
ID_PP2_003 == <<"P","P","-","2","-","0","0","3">>
ID_SD1_x == <<"S","D","-","1","-","x">>
ID_NO1_001 == <<"N","O","-","1","-","0","0","1">>

\* the dict the create form builds (lines 525-547)
FormRow(did, module, company_code, title, status, resolved_date, reported_by, owner, user) ==
    [company_code |-> Str(company_code),
     open_date |-> Date(0),
     module |-> Str(module),
     defect_id |-> did,
     defect_title |-> Str(title),
     defect_type |-> Str(DEFECT_TYPES[1]),
     priority |-> Str(PRIORITIES[2]),
     status |-> Str(status),
     current_owner |-> Str(owner),
     resolved_date |-> resolved_date,
     open_with |-> Str(OPEN_WITH[1]),
     reported_by |-> Str(reported_by),
     responsible |-> Str(<<>>),
     environment |-> Str(ENVIRONMENTS[1]),
     linked_test_id |-> Str(<<>>),
     description |-> Str(<<>>),
     steps |-> Str(<<>>),
     created_by |-> Str(user),
     created_at |-> Str(<<>>),
     last_updated_by |-> Str(user),
     last_updated_at |-> Str(<<>>)]

\* Defect ID values without an identifier: no key, empty, blank
BlankIds == {Absent, Str(<<>>), Str(<<" "," ">>)}

ApiStatus == {<<S_New, None>>, <<S_Resolved, Date(1)>>}
ApiCreated == {<<Absent, Absent>>, <<Str(U_zed), Str(IsoStamp(0))>>}

ApiRow(did, st, cr) ==
    [FormRow(did, <<"S","D">>, COMPANY_CODES[1], <<" ","T"," ">>, st[1], st[2], <<"r","e","p">>, <<"o","w">>, U_al)
        EXCEPT !.created_by = cr[1], !.created_at = cr[2]]

\* the calls upsert_defect(row, actor, is_create) of the model
ApiCalls ==
    {[row |-> ApiRow(Str(<<" ">> \o ID_SD1_001), st, cr), actor |-> a, is_create |-> c] :
        st \in ApiStatus, cr \in ApiCreated, a \in Actors, c \in BOOLEAN}
    \cup
    {[row |-> ApiRow(Str(ID_SD1_007), <<S_New, None>>, <<Str(U_zed), Str(IsoStamp(0))>>),
      actor |-> U_bo, is_create |-> c] : c \in BOOLEAN}
    \cup
    {[row |-> ApiRow(did, <<S_New, None>>, <<Absent, Absent>>), actor |-> U_al, is_create |-> c] :
        did \in BlankIds, c \in BOOLEAN}

ApiDeleteIds == {ID_SD1_001, ID_SD1_007, ID_NO1_001}

----------------------------------------------------------------------------
(* apply_filters *)

All == <<"A","l","l">>

\* lines 396-405: the sidebar widgets as first rendered; owner_filter and
\* search hold the text as typed
FiltersInit ==
    [company_choice |-> All, module_choice |-> All, status_choice |-> All,
     priority_choice |-> All, show_closed |-> TRUE, owner_filter |-> <<>>, search |-> <<>>]

\* re.compile(pat) raises re.error; patterns are written with plain
\* characters, ".", "*" and "(": an opening parenthesis is never closed, and
\* "*" needs something to repeat that is not itself a repeat
RegexError(pat) ==
    \E i \in 1..Len(pat) :
        \/ pat[i] = "("
        \/ pat[i] = "*" /\ (i = 1 \/ pat[i-1] = "*")

\* whether pat from position i on matches s starting at position j: "."
\* stands for any character, x* for any number of x
RECURSIVE RegexMatchAt(_, _, _, _)
RegexMatchAt(pat, i, s, j) ==
    IF i > Len(pat) THEN TRUE
    ELSE LET star == i < Len(pat) /\ pat[i+1] = "*"
             hit == j <= Len(s) /\ (pat[i] = "." \/ pat[i] = s[j])
         IN IF star
            THEN RegexMatchAt(pat, i + 2, s, j) \/ (hit /\ RegexMatchAt(pat, i, s, j + 1))
            ELSE hit /\ RegexMatchAt(pat, i + 1, s, j + 1)

\* Series.str.contains(pat, na=False): regex=True by default, so re.search(pat, s)
StrContains(s, pat) == \E j \in 1..(Len(s) + 1) : RegexMatchAt(pat, 1, s, j)

\* out[[cols]].astype(str).agg(" ".join, axis=1).str.lower() for one row
RECURSIVE JoinLower(_, _)
JoinLower(d, cols) ==
    IF cols = <<>> THEN <<>>
    ELSE Lower(PyStr(d[Head(cols)]))
         \o (IF Len(cols) > 1 THEN <<" ">> \o JoinLower(d, Tail(cols)) ELSE <<>>)

OwnerCols == <<"current_owner", "responsible">>
SearchCols == <<"defect_id", "defect_title", "reported_by">>

\* lines 401-402 and 417-449: the filtered frame, or the re.error of a query
\* that is no regular expression
ApplyFilters(df, f) ==
    LET owner_filter == Lower(Strip(f.owner_filter))
        search == Lower(Strip(f.search))
        o1 == IF f.company_choice # All THEN {d \in df : d.company_code = Str(f.company_choice)} ELSE df
        o2 == IF f.module_choice # All THEN {d \in o1 : d.module = Str(f.module_choice)} ELSE o1
        o3 == IF f.status_choice # All THEN {d \in o2 : d.status = Str(f.status_choice)} ELSE o2
        o4 == IF f.priority_choice # All THEN {d \in o3 : d.priority = Str(f.priority_choice)} ELSE o3
        o5 == IF ~f.show_closed THEN {d \in o4 : d.status # Str(S_Closed)} ELSE o4
        o6 == IF owner_filter # <<>>
              THEN {d \in o5 : StrContains(JoinLower(d, OwnerCols), owner_filter)} ELSE o5
        o7 == IF search # <<>>
              THEN {d \in o6 : StrContains(JoinLower(d, SearchCols), search)} ELSE o6
    IN IF owner_filter # <<>> /\ RegexError(owner_filter) THEN [rows |-> {}, err |-> "re.error"]
       ELSE IF search # <<>> /\ RegexError(search) THEN [rows |-> {}, err |-> "re.error"]
       ELSE [rows |-> o7, err |-> "ok"]

----------------------------------------------------------------------------
(* Sessions *)

Sessions == {1, 2}
NoDf == [t |-> "unset"]
Df(rows) == [t |-> "df", rows |-> rows]
HasDf(ss) == ss.df.t = "df"

\* username: the sidebar text input; filters: the sidebar filter widgets;
\* df: st.session_state.df; pc: "idle"
\* between script runs, "submit" while a create submission sits between its
\* next_defect_id read (line 480) and its upsert (line 550); module,
\* company_code, auto_id: the values of that submission read so far
SessInit == [username |-> <<>>, df |-> NoDf, pc |-> "idle",
             module |-> <<>>, company_code |-> <<>>, auto_id |-> <<>>,
             filters |-> FiltersInit]

----------------------------------------------------------------------------
(* Direct calls of upsert_defect and delete_defect *)

Init ==
    /\ table = {}
    /\ now = 0
    /\ last = [op |-> "init"]
    /\ sess = [s \in Sessions |-> SessInit]
    /\ issued = {}
    /\ age_in = None
    /\ age_out = None

Tick ==
    /\ now < MaxNow
    /\ now' = now + 1
    /\ UNCHANGED <<table, last, sess, issued, age_in, age_out>>

CallUpsert(row, actor, is_create) ==
    LET r == UpsertDefect(table, row, actor, is_create, now)
    IN /\ table' = r.table
       /\ last' = [op |-> "upsert", row |-> row, actor |-> actor,
                   is_create |-> is_create, err |-> r.err]
       /\ UNCHANGED <<now, sess, issued, age_in, age_out>>

CallDelete(did) ==
    /\ table' = DeleteDefect(table, did)
    /\ last' = [op |-> "delete", did |-> did, existed |-> HasRow(table, did)]
    /\ UNCHANGED <<now, sess, issued, age_in, age_out>>

Next ==
    \/ Tick
    \/ \E c \in ApiCalls : CallUpsert(c.row, c.actor, c.is_create)
    \/ \E did \in ApiDeleteIds : CallDelete(did)

Spec == Init /\ [][Next]_vars

----------------------------------------------------------------------------
(* next_defect_id over tables of generated and other identifiers *)

ID_SD2_005 == <<"S","D","-","2","-","0","0","5">>
ID_PP1_003 == <<"P","P","-","1","-","0","0","3">>

\* Defect ID values of rows: generated ones, one whose suffix is no number,
\* and None, which an added editor row carries and str() turns into "None"
IdSpecIds == {Str(ID_SD1_001), Str(ID_SD1_007), Str(ID_SD2_005), Str(ID_PP1_003),
              Str(ID_SD1_x), None}

IdModules == {<<"S","D">>, <<"s","d">>, <<"P","P">>, <<"F","I">>, <<>>}
IdCompanies == {COMPANY_CODES[1], COMPANY_CODES[2], <<"9","9","9","9">>}

IdUpsert(did) ==
    CallUpsert(ApiRow(did, <<S_New, None>>, <<Absent, Absent>>), U_al, TRUE)

IdDelete(did) ==
    /\ HasRow(table, did)
    /\ CallDelete(did)

CallNextId(module, company_code) ==
    /\ last' = [op |-> "next_id", module |-> module, company_code |-> company_code,
                result |-> NextDefectId(table, module, company_code)]
    /\ UNCHANGED <<table, now, sess, issued, age_in, age_out>>

IdNext ==
    \/ \E did \in IdSpecIds : IdUpsert(did)
    \/ \E did \in IdSpecIds : IdDelete(PyStr(did))
    \/ \E m \in IdModules, c \in IdCompanies : CallNextId(m, c)

IdSpec == Init /\ [][IdNext]_vars

----------------------------------------------------------------------------
(* compute_age_days over its arguments and the calendar *)

AgeDates == {None} \cup {Date(d) : d \in 0..MaxDay}
AgeStatuses == {STATUSES[i] : i \in 1..6} \cup {<<>>, <<"r","e","s","o","l","v","e","d">>}

AgeInit ==
    /\ table = {}
    /\ now \in {d * TicksPerDay : d \in 0..MaxDay}
    /\ last = [op |-> "init"]
    /\ sess = [s \in Sessions |-> SessInit]
    /\ issued = {}
    /\ age_in \in [open_date : AgeDates, resolved_date : AgeDates, status : AgeStatuses]
    /\ age_out = None

CallAge ==
    /\ age_out' = ComputeAgeDays(age_in.open_date, age_in.resolved_date, age_in.status,
                                 today_date(now))
    /\ last' = [op |-> "age", today |-> today_date(now)]
    /\ UNCHANGED <<table, now, sess, issued, age_in>>

\* midnight passes between two reads
AgeNewDay ==
    /\ today_date(now) < MaxDay
    /\ now' = now + TicksPerDay
    /\ last' = [op |-> "newday"]
    /\ UNCHANGED <<table, sess, issued, age_in, age_out>>

AgeNext == CallAge \/ AgeNewDay

AgeSpec == AgeInit /\ [][AgeNext]_vars

----------------------------------------------------------------------------
(* The page: script runs of the browser sessions *)

\* line 411-412: the frame is read from the table only when the session holds none
EnsureDf(ss, tbl, today) == IF HasDf(ss) THEN ss ELSE [ss EXCEPT !.df = Df(LoadDefectsDf(tbl, today))]

\* a plausible slip: the whole frame is edited and saved, not the filtered one
Unfiltered(ss) == IF HasDf(ss) THEN ss.df.rows ELSE {}

\* line 452: filtered = apply_filters(df_all)
Filtered(ss) == IF HasDf(ss) THEN ApplyFilters(ss.df.rows, ss.filters).rows ELSE {}

\* the script run gets past line 452 and renders the tabs
Renders(ss) == ApplyFilters(IF HasDf(ss) THEN ss.df.rows ELSE {}, ss.filters).err = "ok"

\* a sidebar interaction: the filter widgets are set and the script runs
SetFilters(s, f) ==
    /\ sess[s].pc = "idle"
    /\ sess[s].filters # f
    /\ sess' = [sess EXCEPT ![s] = [EnsureDf(sess[s], table, today_date(now)) EXCEPT !.filters = f]]
    /\ UNCHANGED <<table, now, last, issued, age_in, age_out>>

\* a sidebar interaction: the username is typed and the script runs
EnterUsername(s, u) ==
    /\ sess[s].pc = "idle"
    /\ sess[s].username = <<>>
    /\ sess' = [sess EXCEPT ![s] = [EnsureDf(sess[s], table, today_date(now)) EXCEPT !.username = u]]
    /\ UNCHANGED <<table, now, last, issued, age_in, age_out>>

\* the values a user submits in the create form
Form(module, company_code, title, status, resolved_date, reported_by, owner) ==
    [module |-> module, company_code |-> company_code, defect_title |-> title,
     status |-> status, resolved_date |-> resolved_date, reported_by |-> reported_by,
     current_owner |-> owner]

\* "Create / Save" pressed: the script runs down to line 480, where auto_id is
\* read from the table for the submitted module and company code
CreateRun(s, module, company_code) ==
    /\ sess[s].pc = "idle"
    /\ Renders(sess[s])
    /\ sess' = [sess EXCEPT ![s] =
                  [EnsureDf(sess[s], table, today_date(now)) EXCEPT
                      !.pc = "submit", !.module = module, !.company_code = company_code,
                      !.auto_id = NextDefectId(table, module, company_code)]]
    /\ UNCHANGED <<table, now, last, issued, age_in, age_out>>

\* lines 511-518: the first validation error of a submission, or "ok"
CreateCheck(username, form) ==
    IF username = <<>> THEN "no_username"
    ELSE IF Strip(form.defect_title) = <<>> THEN "no_title"
    ELSE IF Strip(form.reported_by) = <<>> THEN "no_reporter"
    ELSE IF form.status \in TerminalStatuses /\ IsNone(form.resolved_date) THEN "no_resolved"
    ELSE "ok"

\* lines 521-547: the row dict of a submission
CreateRow(username, form, auto_id) ==
    LET owner_value == IF Strip(form.current_owner) = <<>> /\ form.status \in ActiveStatuses
                       THEN username ELSE Strip(form.current_owner)
    IN FormRow(Str(auto_id), form.module, form.company_code, Strip(form.defect_title),
               form.status, form.resolved_date, Strip(form.reported_by), owner_value, username)

\* lines 510-555: validation, upsert_defect(is_create=True), reload; form holds
\* the submitted values, of which module and company code were read at line 480
CreateSubmitUpTo(s, form, cap) ==
    /\ sess[s].pc = "submit"
    /\ form.module = sess[s].module
    /\ form.company_code = sess[s].company_code
    /\ LET ss == sess[s]
           check == CreateCheck(ss.username, form)
           row == CreateRow(ss.username, form, ss.auto_id)
           r == IF check = "ok" THEN UpsertDefect(table, row, ss.username, TRUE, now)
                ELSE [table |-> table, err |-> check]
           idle == [ss EXCEPT !.pc = "idle", !.module = <<>>, !.company_code = <<>>,
                              !.auto_id = <<>>]
       IN /\ Cardinality(r.table) <= cap
          /\ table' = r.table
          /\ sess' = [sess EXCEPT ![s] =
                        IF r.err = "ok"
                        THEN [idle EXCEPT !.df = Df(LoadDefectsDf(r.table, today_date(now)))]
                        ELSE idle]
          /\ issued' = IF r.err = "ok" THEN issued \cup {ss.auto_id} ELSE issued
          /\ last' = [op |-> "create", outcome |-> r.err, actor |-> ss.username,
                      rows |-> {row}]
    /\ UNCHANGED <<now, age_in, age_out>>

CreateSubmit(s, form) == CreateSubmitUpTo(s, form, MaxRows)

\* the cell edits a user makes to one row of the data editor
Edits == {"keep", "resolve", "resolve_nodate", "clear_title"}

EditRow(d, e, today) ==
    CASE e = "resolve" -> [d EXCEPT !.status = Str(S_Resolved), !.resolved_date = Date(1)]
      [] e = "resolve_nodate" -> [d EXCEPT !.status = Str(S_Resolved), !.resolved_date = None]
      [] e = "clear_title" -> [d EXCEPT !.defect_title = Str(<<>>)]
      [] OTHER -> d

\* a plausible slip: Save changes without the Resolved Date check
NoBadRows(rows) == {}

\* line 618-622: the rows that are Resolved/Closed with no Resolved Date
BadRows(rows) ==
    {d \in rows : d.status.s \in TerminalStatuses /\ IsNone(ParseAnyDate(d.resolved_date))}

\* lines 627-631: the dict of one row, the owner defaulted to the editor
SaveRow(d, username) ==
    LET parsed == [d EXCEPT !.open_date = ParseAnyDate(d.open_date),
                            !.resolved_date = ParseAnyDate(d.resolved_date)]
    IN IF PyStr(parsed.status) \in ActiveStatuses /\ Strip(PyStr(parsed.current_owner)) = <<>>
       THEN [parsed EXCEPT !.current_owner = Str(username)]
       ELSE parsed

\* lines 626-633: upsert_defect(is_create=False) row after row, each call
\* committing on its own; the loop ends at the first exception, which leaves
\* the rows written before it in the table
RECURSIVE SaveLoop(_, _, _, _)
SaveLoop(tbl, rows, username, clock) ==
    IF rows = {} THEN [table |-> tbl, err |-> "ok"]
    ELSE LET d == CHOOSE x \in rows : TRUE
             r == UpsertDefect(tbl, SaveRow(d, username), username, FALSE, clock)
         IN IF r.err = "ok" THEN SaveLoop(r.table, rows \ {d}, username, clock)
            ELSE r

\* lines 612-639: "Save changes" on the edited frame
SaveChanges(s, edit) ==
    /\ sess[s].pc = "idle"
    /\ HasDf(sess[s])
    /\ Renders(sess[s])
    /\ sess[s].df.rows # {}
    /\ LET ss == sess[s]
           edited == {EditRow(d, edit[d], today_date(now)) : d \in Filtered(ss)}
           r == IF ss.username = <<>> THEN [table |-> table, err |-> "no_username"]
                ELSE IF BadRows(edited) # {} THEN [table |-> table, err |-> "missing_resolved"]
                ELSE SaveLoop(table, edited, ss.username, now)
       IN /\ table' = r.table
          /\ sess' = [sess EXCEPT ![s] =
                        IF r.err = "ok"
                        THEN [ss EXCEPT !.df = Df(LoadDefectsDf(r.table, today_date(now)))]
                        ELSE ss]
          /\ last' = [op |-> "save", outcome |-> r.err, actor |-> ss.username,
                      rows |-> edited]
    /\ UNCHANGED <<now, issued, age_in, age_out>>

\* lines 645-654: "Confirm delete" with the typed identifier
ConfirmDelete(s, del_id) ==
    /\ sess[s].pc = "idle"
    /\ HasDf(sess[s])
    /\ Renders(sess[s])
    /\ sess[s].df.rows # {}
    /\ LET ss == sess[s]
           outcome == IF ss.username = <<>> THEN "no_username"
                      ELSE IF Strip(del_id) # <<>> THEN "ok" ELSE "no_id"
           tbl == IF outcome = "ok" THEN DeleteDefect(table, Strip(del_id)) ELSE table
       IN /\ table' = tbl
          /\ sess' = [sess EXCEPT ![s] =
                        IF outcome = "ok"
                        THEN [ss EXCEPT !.df = Df(LoadDefectsDf(tbl, today_date(now)))]
                        ELSE ss]
          /\ last' = [op |-> "delete", outcome |-> outcome, actor |-> ss.username,
                      rows |-> {}]
    /\ UNCHANGED <<now, issued, age_in, age_out>>

\* what the users type and pick
PageUser(s) == IF s = 1 THEN U_al ELSE U_bo

PageForms ==
    {Form(<<"S","D">>, COMPANY_CODES[1], <<"T">>, S_New, None, <<"r","e","p">>, <<>>),
     Form(<<"S","D">>, COMPANY_CODES[1], <<"T">>, S_Resolved, Date(0), <<"r","e","p">>, <<>>),
     Form(<<"S","D">>, COMPANY_CODES[1], <<" ">>, S_New, None, <<"r","e","p">>, <<>>),
     Form(<<"S","D">>, COMPANY_CODES[1], <<"T">>, S_New, None, <<>>, <<>>)}

PageDeleteIds == {ID_SD1_001, <<" ">>}

PageStepWith(s, forms, edits) ==
    \/ EnterUsername(s, PageUser(s))
    \/ CreateRun(s, <<"S","D">>, COMPANY_CODES[1])
    \/ \E form \in forms : CreateSubmit(s, form)
    \/ \E edit \in [Filtered(sess[s]) -> edits] : SaveChanges(s, edit)
    \/ \E del_id \in PageDeleteIds : ConfirmDelete(s, del_id)

PageStep(s, edits) == PageStepWith(s, PageForms, edits)

\* two sessions on one table; each edits status and resolved date only, and
\* submits a form that is valid or lacks its title
PageEdits == {"keep", "resolve", "resolve_nodate"}
RaceForms == {f \in PageForms : f.reported_by # <<>>}

PageNext == Tick \/ \E s \in Sessions : PageStepWith(s, RaceForms, PageEdits)

PageSpec == Init /\ [][PageNext]_vars

\* one session alone, with every edit
SoloNext == Tick \/ PageStep(1, Edits)

SoloSpec == Init /\ [][SoloNext]_vars

\* what a user sets in the sidebar: one widget changed from the defaults
FilterInputs ==
    {FiltersInit}
    \cup {[FiltersInit EXCEPT !.search = q] :
            q \in {<<"S","D","-","1","-","0","0","1">>, <<"s","d","-","1">>, <<"s","d","-","1","-","0","0","8">>, <<" ","R","e","p"," ">>, <<"s","d",".","1">>, <<".">>, <<"0","*","1">>, <<"x","*">>, <<"*">>, <<"(">>, <<"t"," ","(">>}}
    \cup {[FiltersInit EXCEPT !.owner_filter = q] : q \in {<<"A","L">>, <<"b","o">>, <<"a",".">>, <<"(">>}}
    \cup {[FiltersInit EXCEPT !.status_choice = S_Resolved],
          [FiltersInit EXCEPT !.company_choice = COMPANY_CODES[2]],
          [FiltersInit EXCEPT !.module_choice = MODULES[2]],
          [FiltersInit EXCEPT !.priority_choice = PRIORITIES[1]],
          [FiltersInit EXCEPT !.show_closed = FALSE]}

\* one session that also works the sidebar filters
FilterNext ==
    \/ PageStep(1, {"keep", "resolve"})
    \/ \E f \in FilterInputs : SetFilters(1, f)

FilterSpec == Init /\ [][FilterNext]_vars

\* al creates defects, filters and saves; bo only opens the page and resolves
\* what its frame shows
ViewFilters == {FiltersInit, [FiltersInit EXCEPT !.search = <<"-","0","0","2">>]}

ViewNext ==
    \/ \E s \in Sessions : EnterUsername(s, PageUser(s))
    \/ CreateRun(1, <<"S","D">>, COMPANY_CODES[1])
    \/ CreateSubmitUpTo(1, Form(<<"S","D">>, COMPANY_CODES[1], <<"T">>, S_New, None, <<"r","e","p">>, <<>>),
                        MaxRows + 1)
    \/ \E f \in ViewFilters : SetFilters(1, f)
    \/ \E edit \in [Filtered(sess[1]) -> {"keep", "resolve"}] : SaveChanges(1, edit)
    \/ \E edit \in [Filtered(sess[2]) -> {"resolve"}] : SaveChanges(2, edit)

ViewSpec == Init /\ [][ViewNext]_vars

----------------------------------------------------------------------------
(* Properties of upsert_defect and delete_defect *)

\* the identifier a row names, and whether it names none
RowId(row) == Strip(PyStr(row.defect_id))
NoIdentifier(row) ==
    \/ IsAbsent(row.defect_id)
    \/ row.defect_id.t = "str" /\ \A i \in 1..Len(row.defect_id.s) : row.defect_id.s[i] = " "

\* C1: after any sequence of upsert_defect and delete_defect calls the table
\* holds at most one row per defect_id, and right after a successful
\* upsert_defect for identifier X it holds exactly one row for X.
OneRowPerDefectId ==
    /\ \A r1 \in table, r2 \in table : r1.defect_id = r2.defect_id => r1 = r2
    /\ (last.op = "upsert" /\ last.err = "ok")
          => Cardinality(RowsWith(table, RowId(last.row))) = 1

\* C1 witness: a successful upsert hit an existing identifier (the row was
\* written twice) while another row is in the table
OneRowPerDefectIdWitness ==
    /\ last.op = "upsert" /\ last.err = "ok"
    /\ Cardinality(table) = 2
    /\ HasRow(table, RowId(last.row))
    /\ RowOf(table, RowId(last.row)).created_at # RowOf(table, RowId(last.row)).last_updated_at

\* C3: upsert_defect(is_create=False) on an identifier that already has a row
\* leaves created_by and created_at as they were, whatever the supplied row
\* carries, and stamps last_updated_by/at with the actor and the current time.
UpdateKeepsCreated ==
    [][(/\ last'.op = "upsert" /\ ~last'.is_create /\ last'.err = "ok"
        /\ now' = now
        /\ HasRow(table, RowId(last'.row)))
       => LET old == RowOf(table, RowId(last'.row))
              new == RowOf(table', RowId(last'.row))
          IN /\ new.created_by = old.created_by
             /\ new.created_at = old.created_at
             /\ new.last_updated_by = Str(last'.actor)
             /\ new.last_updated_at = Str(IsoStamp(now))]_vars

\* C3 witness: bo updated, at a later time and with a row carrying
\* "Created By" zed, a defect that al created
UpdateKeepsCreatedWitness ==
    /\ last.op = "upsert" /\ ~last.is_create /\ last.err = "ok"
    /\ last.actor = U_bo
    /\ last.row.created_by = Str(U_zed)
    /\ HasRow(table, RowId(last.row))
    /\ RowOf(table, RowId(last.row)).created_by = Str(U_al)
    /\ RowOf(table, RowId(last.row)).created_at = Str(IsoStamp(0))
    /\ RowOf(table, RowId(last.row)).last_updated_by = Str(U_bo)
    /\ RowOf(table, RowId(last.row)).last_updated_at = Str(IsoStamp(1))

DeleteRemovesOnlyX ==
    [][(last'.op = "delete" /\ now' = now)
       => LET X == last'.did
          IN /\ ~HasRow(table', X)
             /\ \A d \in LoadDefectsDf(table', today_date(now')) : d.defect_id # Str(X)
             /\ \A r \in table : r.defect_id # Str(X) => r \in table'
             /\ table' \subseteq table
             /\ (~HasRow(table, X) => table' = table)]_vars

\* C5 witness: an existing defect was deleted and another one is still there
DeleteRemovesOnlyXWitness ==
    /\ last.op = "delete" /\ last.existed
    /\ ~HasRow(table, last.did)
    /\ table # {}

----------------------------------------------------------------------------
(* Properties of next_defect_id *)

HasLiteralPrefix(s, prefix) == Len(s) >= Len(prefix) /\ SubSeq(s, 1, Len(prefix)) = prefix
AfterPrefix(s, prefix) == SubSeq(s, Len(prefix) + 1, Len(s))
AllDigits(s) == s # <<>> /\ \A i \in 1..Len(s) : IsDigit(s[i])

\* the numeric suffixes of the identifiers in the table that start with prefix
NumericSuffixes(tbl, prefix) ==
    {DigitsValue(AfterPrefix(r.defect_id.s, prefix)) :
        r \in {q \in tbl : /\ HasLiteralPrefix(q.defect_id.s, prefix)
                          /\ AllDigits(AfterPrefix(q.defect_id.s, prefix))}}

ThreeDigits(n) ==
    IF n < 10 THEN <<"0","0">> \o Decimal(n) ELSE IF n < 100 THEN <<"0">> \o Decimal(n) ELSE Decimal(n)

ExpectedNextId(tbl, module, company_code) ==
    LET prefix == Upper(module) \o <<"-">> \o COMPANY_INDEX[company_code] \o <<"-">>
        m == SetMax({0} \cup NumericSuffixes(tbl, prefix))
    IN prefix \o ThreeDigits(m + 1)

\* C6: next_defect_id(module, company_code) is <MODULE uppercased>-<company
\* index>-<m+1 padded to three digits>, m the largest numeric suffix among the
\* existing identifiers with that prefix and 0 when there is none; SD-1-001 on
\* an empty table, SD-1-008 when the one existing row is SD-1-007.
NextIdIsMaxPlusOne ==
    (last.op = "next_id" /\ last.module # <<>> /\ last.company_code \in DOMAIN COMPANY_INDEX)
    => /\ last.result = ExpectedNextId(table, last.module, last.company_code)
       /\ (table = {} /\ last.module = <<"S","D">> /\ last.company_code = <<"4","3","1","0">>)
             => last.result = <<"S","D","-","1","-","0","0","1">>
       /\ ({r.defect_id : r \in table} = {Str(<<"S","D","-","1","-","0","0","7">>)}
              /\ last.module = <<"S","D">> /\ last.company_code = <<"4","3","1","0">>)
             => last.result = <<"S","D","-","1","-","0","0","8">>

\* C6 witness: the table holds SD-1-001, SD-1-007, a row of another company, a
\* row of another module and one with a non-numeric suffix; "sd"/4310 got SD-1-008
NextIdIsMaxPlusOneWitness ==
    /\ last.op = "next_id" /\ last.module = <<"s","d">> /\ last.company_code = <<"4","3","1","0">>
    /\ {r.defect_id.s : r \in table} = {ID_SD1_001, ID_SD1_007, ID_SD2_005, ID_PP1_003, ID_SD1_x}
    /\ last.result = <<"S","D","-","1","-","0","0","8">>

----------------------------------------------------------------------------
(* Properties of compute_age_days *)

Terminal(status) == status = <<"R","e","s","o","l","v","e","d">> \/ status = <<"C","l","o","s","e","d">>
DaysBetween(a, b) == IF b >= a THEN b - a ELSE 0

\* C8: compute_age_days is absent when open_date is absent; otherwise it is
\* max(0, end - open_date), end being resolved_date when status is Resolved or
\* Closed and resolved_date is present, and today in every other case; it is
\* never negative.
AgeIsClampedSpan ==
    last.op = "age"
    => /\ IsNone(age_in.open_date) => IsNone(age_out)
       /\ (~IsNone(age_in.open_date) /\ Terminal(age_in.status) /\ ~IsNone(age_in.resolved_date))
             => age_out = Num(DaysBetween(age_in.open_date.d, age_in.resolved_date.d))
       /\ (~IsNone(age_in.open_date) /\ ~(Terminal(age_in.status) /\ ~IsNone(age_in.resolved_date)))
             => age_out = Num(DaysBetween(age_in.open_date.d, last.today))
       /\ ~IsNone(age_out) => age_out.n >= 0

\* C8 witness: a defect that is New, opened on day 1 and carrying a resolved
\* date of day 0, read on day 2: the age is counted to today
AgeIsClampedSpanWitness ==
    /\ last.op = "age" /\ last.today = 2
    /\ age_in = [open_date |-> Date(1), resolved_date |-> Date(0), status |-> S_New]
    /\ age_out = Num(1)

----------------------------------------------------------------------------
(* Properties of the page *)

Blank(v) == IsNone(v) \/ IsAbsent(v) \/ (v.t = "str" /\ \A i \in 1..Len(v.s) : v.s[i] = " ")

\* the display row load_defects_df returns for identifier X
Loaded(X) == CHOOSE d \in LoadDefectsDf(table, today_date(now)) : d.defect_id = Str(X)

SuppliedCols == {"company_code", "open_date", "module", "defect_title", "defect_type",
                 "priority", "status", "current_owner", "resolved_date", "open_with",
                 "reported_by", "responsible", "environment", "linked_test_id",
                 "description", "steps"}

\* C2: after upsert_defect(row, actor, is_create=True) with identifier X
\* succeeds, in any reachable state of the table, load_defects_df returns for
\* X exactly the attribute values supplied, created_by = actor, created_at
\* set, and last_updated_by/at equal to created_by/at.
CreateRoundTrip ==
    (last.op = "create" /\ last.outcome = "ok")
    => \A row \in last.rows :
          /\ \E d \in LoadDefectsDf(table, today_date(now)) : d.defect_id = row.defect_id
          /\ LET d == Loaded(row.defect_id.s)
             IN /\ \A c \in SuppliedCols : d[c] = row[c]
                /\ d.created_by = Str(last.actor)
                /\ d.created_at # Str(<<>>)
                /\ d.last_updated_by = d.created_by
                /\ d.last_updated_at = d.created_at

\* the module-company prefix and the numeric suffix of a generated identifier
PairOf(did) == SubSeq(did, 1, Len(did) - Len(LastSegment(did)))
SuffixOf(did) == DigitsValue(LastSegment(did))

\* C7: per module/company pair the suffix next_defect_id assigns to a new
\* defect is strictly greater than the suffix of every identifier assigned
\* earlier for that pair, over any sequence of creates and deletes; no
\* identifier is handed out twice.
IdsStrictlyIncrease ==
    [][\A s \in Sessions :
          (sess[s].pc = "submit" /\ sess'[s].pc = "idle" /\ last'.op = "create"
              /\ last'.outcome = "ok" /\ issued' = issued \cup {sess[s].auto_id})
          => \A x \in issued :
                PairOf(x) = PairOf(sess[s].auto_id) => SuffixOf(sess[s].auto_id) > SuffixOf(x)]_vars

\* C9: after any sequence of create submissions and Save changes made through
\* the page, every stored defect that is Resolved or Closed has a resolved_date.
TerminalHasResolvedDate ==
    \A r \in table : Terminal(r.status.s) => ~IsNone(r.resolved_date)

\* C9 witness: a Save changes went through that set a defect to Resolved with
\* the date the user picked in the editor
TerminalHasResolvedDateWitness ==
    /\ last.op = "save" /\ last.outcome = "ok"
    /\ \E r \in table : r.status = Str(S_Resolved) /\ r.resolved_date = Str(IsoDate(1))

\* a submitted row with a validation error: a required field (Defect ID,
\* title, reporter) is missing, or the status is terminal with no resolved date
RowInvalid(d) ==
    \/ Blank(d.defect_id)
    \/ Blank(d.defect_title)
    \/ Blank(d.reported_by)
    \/ (Terminal(PyStr(d.status)) /\ IsNone(d.resolved_date))

\* C10: a create submission or Save changes that hits a validation error is
\* aborted with no partial write: it inserts and modifies no row.
InvalidWritesNothing ==
    [][(/\ last'.op \in {"create", "save"}
        /\ now' = now
        /\ \E d \in last'.rows : RowInvalid(d))
       => table' = table]_vars

----------------------------------------------------------------------------
(* Properties of concurrent sessions *)

\* C11: two sessions that edit the same defect and both save end with
\* last-writer-wins: a save is never rejected because of what another session
\* wrote, and after it the stored row carries exactly the attribute values
\* and last_updated_by of that save, the one that committed last.
SaveIsLastWriter ==
    last.op = "save"
    => /\ (last.actor # <<>> /\ \A d \in last.rows : ~(Terminal(PyStr(d.status)) /\ IsNone(d.resolved_date)))
             => last.outcome = "ok"
       /\ last.outcome = "ok"
             => \A d \in last.rows :
                   \E r \in LoadDefectsDf(table, today_date(now)) :
                      /\ r.defect_id = d.defect_id
                      /\ \A c \in SuppliedCols : r[c] = d[c]
                      /\ r.last_updated_by = Str(last.actor)

\* C11 witness: al saved the defect as Resolved and still sees that in its
\* frame; bo, whose frame showed it as New, saved afterwards and the stored
\* row is bo's
SaveIsLastWriterWitness ==
    /\ last.op = "save" /\ last.outcome = "ok" /\ last.actor = U_bo
    /\ HasDf(sess[1])
    /\ \E d \in last.rows, mine \in sess[1].df.rows, r \in table :
          /\ d.defect_id = mine.defect_id /\ r.defect_id = d.defect_id
          /\ mine.last_updated_by = Str(U_al) /\ mine.status = Str(S_Resolved)
          /\ mine.created_at = r.created_at /\ mine.created_by = r.created_by
          /\ d.status = Str(S_New)
          /\ r.status = Str(S_New) /\ r.last_updated_by = Str(U_bo)

----------------------------------------------------------------------------
(* Properties of apply_filters *)

\* whether q occurs in s as it stands
LiteralIn(q, s) == \E i \in 0..(Len(s) - Len(q)) : SubSeq(s, i + 1, i + Len(q)) = q

\* C12: the search and owner text filters keep exactly the rows whose joined
\* columns contain the query as a literal substring, case-insensitively: every
\* character of the query, "." "(" "*" included, stands for itself, and an
\* empty query excludes no row.
FiltersMatchLiterally ==
    \A s \in Sessions :
        (HasDf(sess[s]) /\ sess[s].df.rows # {})
        => LET f == sess[s].filters
               picked == ApplyFilters(sess[s].df.rows,
                                      [f EXCEPT !.owner_filter = <<>>, !.search = <<>>]).rows
           IN /\ Renders(sess[s])
              /\ Filtered(sess[s]) =
                    {d \in picked :
                        /\ LiteralIn(Lower(Strip(f.owner_filter)), JoinLower(d, OwnerCols))
                        /\ LiteralIn(Lower(Strip(f.search)), JoinLower(d, SearchCols))}

\* C13: a create whose identifier was read before another session inserted
\* the same identifier still succeeds; the table keeps a single row for the
\* identifier, holding the second creator's attributes and the first
\* creator's created_by/created_at.
SecondCreateOverwrites ==
    [][\A s \in Sessions : \A old \in table :
          (/\ sess[s].pc = "submit" /\ sess'[s].pc = "idle" /\ last'.op = "create"
           /\ old.defect_id = Str(sess[s].auto_id)
           /\ last'.actor # <<>>
           /\ \A d \in last'.rows : ~RowInvalid(d))
          => /\ last'.outcome = "ok"
             /\ Cardinality({r \in table' : r.defect_id = old.defect_id}) = 1
             /\ \A r \in table' : \A d \in last'.rows :
                   r.defect_id = old.defect_id
                   => /\ \A c \in SuppliedCols : DisplayRow(r, today_date(now))[c] = d[c]
                      /\ r.last_updated_by = Str(last'.actor)
                      /\ r.created_by = old.created_by
                      /\ r.created_at = old.created_at]_vars

\* C13 witness: only SD-1-001 was ever handed out, al inserted it, and bo's
\* create, submitted as Resolved at a later time, has just succeeded on it
SecondCreateOverwritesWitness ==
    /\ last.op = "create" /\ last.outcome = "ok" /\ last.actor = U_bo
    /\ issued = {ID_SD1_001}
    /\ \E r \in table :
          /\ r.defect_id = Str(ID_SD1_001) /\ Cardinality(table) = 1
          /\ r.created_by = Str(U_al) /\ r.created_at = Str(IsoStamp(0))
          /\ r.last_updated_by = Str(U_bo) /\ r.last_updated_at = Str(IsoStamp(1))
          /\ r.status = Str(S_Resolved)

\* C14: every interaction reloads the dataset from storage: after a session
\* has run an interaction, its frame and its filtered frame are what
\* load_defects_df returns for the table as it then is, whatever another
\* session has committed in the meantime.
InteractionReloads ==
    [][\A s \in Sessions :
          sess'[s] # sess[s]
          => LET fresh == LoadDefectsDf(table', today_date(now'))
             IN /\ HasDf(sess'[s])
                /\ sess'[s].df.rows = fresh
                /\ Filtered(sess'[s]) = ApplyFilters(fresh, sess'[s].filters).rows]_vars

\* the step is a successful Save changes of session s
SavedBy(s) ==
    /\ last'.op = "save" /\ last'.outcome = "ok" /\ last'.actor = sess[s].username
    /\ now' = now
    /\ sess' = [sess EXCEPT ![s] = [sess[s] EXCEPT !.df = sess'[s].df]]

StaleSaveResurrects ==
    [][\A s \in Sessions :
          SavedBy(s)
          => \A d \in last'.rows :
                (~\E r \in table : r.defect_id = d.defect_id)
                => /\ \E r \in table' :
                         /\ r.defect_id = d.defect_id
                         /\ r.created_by = d.created_by
                         /\ r.created_at = d.created_at
                         /\ r.last_updated_by = Str(sess[s].username)
                   /\ \E v \in LoadDefectsDf(table', today_date(now')) : v.defect_id = d.defect_id
                   /\ issued' = issued]_vars

\* C16 witness: bo created the defect and then deleted it (bo's frame was
\* reloaded empty); al, whose frame still listed it, saved, and the row is
\* back with bo as creator
StaleSaveResurrectsWitness ==
    /\ last.op = "save" /\ last.outcome = "ok" /\ last.actor = U_al
    /\ sess[2].df = Df({})
    /\ \E r \in table :
          /\ r.created_by = Str(U_bo) /\ r.last_updated_by = Str(U_al)
          /\ \E d \in last.rows : d.defect_id = r.defect_id /\ d.created_by = Str(U_bo)

============================================================================
